---------------------------- MODULE Spec2Model ----------------------------
(***************************************************************************)
(* Model of the application bootstrap and RBAC layer of the ERP:           *)
(*   src/app/rbac.py        permissions, role templates, bootstrap_rbac,   *)
(*                          _expand_perm, require_perm, can                *)
(*   src/app/__init__.py    create_app, ensure_schema                      *)
(*   src/bootstrap_user.py  ensure_user, main                              *)
(*                                                                         *)
(* Text.  A Python str is a finite sequence of symbols.  The symbol " "    *)
(* is a whitespace character, ":" is the colon and every other symbol      *)
(* stands for a non-empty run of non-blank characters without a colon      *)
(* (a word such as "stats", or a single letter such as "A").  Python's     *)
(* None is the reserved value None, which no text equals.                  *)
(***************************************************************************)
EXTENDS Integers, Sequences, FiniteSets, TLC

VARIABLES
    \* --- request handling (rbac.py: require_perm, can) ---
    current_user,   \* flask_login.current_user as seen by the helpers
    call,           \* the last helper call: [op, code]
    out,            \* its outcome: [status, value]
    \* --- database content (models Permission, Role, User) ---
    perms,          \* Permission rows: code -> [label, category]
    roles,          \* Role rows: code -> set of permission codes
    users,          \* User rows: id -> [email, role, password, roles]
    \* --- database schema and session (ensure_schema) ---
    dialect,        \* db.engine.dialect.name
    schema,         \* committed schema: [tables, cols, indexes, notnull]
    schema0,        \* the schema the database started with
    step,           \* next migration step of ensure_schema (1..7), 8 = returned
    run,            \* number of the current ensure_schema run
    slog,           \* per run, what each migration step did
    budget,         \* failures the environment may still inject
    \* --- program position (create_app, main) ---
    pc,             \* position in main / create_app
    trace,          \* calls made so far, as <<caller, callee>>
    last            \* the last database operation and its before/after facts

vars == <<current_user, call, out, perms, roles, users, dialect, schema,
          schema0, step, run, slog, budget, pc, trace, last>>

permVars   == <<current_user, call, out>>
dbVars     == <<perms, roles, users>>
schemaVars == <<dialect, schema, schema0, step, run, slog, budget>>
progVars   == <<pc, trace>>

-----------------------------------------------------------------------------
(* Text helpers: str.strip, str.lower, `x or default`.                      *)

None == <<"None">>

IsSpace(c) == c = " "

RECURSIVE lstrip(_)
lstrip(s) == IF s # <<>> /\ IsSpace(Head(s)) THEN lstrip(Tail(s)) ELSE s

RECURSIVE rstrip(_)
rstrip(s) ==
    IF s # <<>> /\ IsSpace(s[Len(s)]) THEN rstrip(SubSeq(s, 1, Len(s) - 1)) ELSE s

\* str.strip()
strip(s) == rstrip(lstrip(s))

\* the symbols that have an upper-case form, and their lower-case forms
LowerOf(c) ==
    CASE c = "A" -> "a"
      [] c = "B" -> "b"
      [] OTHER   -> c

\* str.lower()
lower(s) == [i \in 1..Len(s) |-> LowerOf(s[i])]

\* Python truthiness of an optional str: None and "" are falsy
Falsy(x) == x = None \/ x = <<>>

\* `x or d`
OrElse(x, d) == IF Falsy(x) THEN d ELSE x

\* a permission code "module:action" as text
P(m, a) == <<m, ":", a>>

\* a one-word text
W(w) == <<w>>

\* text padded with blanks on both sides
Pad(s) == <<" ">> \o s \o <<" ">>

-----------------------------------------------------------------------------
(* rbac.py: permission equivalences, _expand_perm, require_perm, can        *)

PERM_EQUIVALENTS ==
    (P("statsimpact", "view") :> {P("statsimpact", "view"), P("stats", "view")})
 @@ (P("bilan", "view") :> {P("bilan", "view"), P("bilans", "view")})
 @@ (<<"bilans", ":", "lourds", ":", "view">> :>
        {<<"bilans", ":", "lourds", ":", "view">>, P("bilans", "view")})
 @@ (P("participants", "update") :>
        {P("participants", "update"), P("participants", "edit")})
 @@ (P("participants", "write") :>
        {P("participants", "write"), P("participants", "edit")})
 @@ (P("participant", "edit") :>
        {P("participant", "edit"), P("participants", "edit")})
 @@ (W("projets_edit") :> {W("projets_edit"), P("projets", "edit")})

\* mutant: the expansion of a listed code is only its canonical equivalent
ExpandPermCanonicalOnly(code) ==
    LET c == strip(OrElse(code, <<>>))
    IN  IF c = <<>> THEN {}
        ELSE IF c \in DOMAIN PERM_EQUIVALENTS THEN PERM_EQUIVALENTS[c] \ {c}
        ELSE {c}

_expand_perm(code) ==
    LET c == strip(OrElse(code, <<>>))
    IN  IF c = <<>> THEN {}
        ELSE IF c \in DOMAIN PERM_EQUIVALENTS THEN PERM_EQUIVALENTS[c]
        ELSE {c}

\* current_user.has_perm(c): the user object answers from the set of codes
\* it holds
HasPermFn(user, c) == c \in user.held

\* mutant: the has_perm / permission tests run before the authentication test
RequirePermAuthLast(user, code) ==
    IF ~user.has_perm_callable THEN "403"
    ELSE IF _expand_perm(code) = {} THEN "403"
    ELSE IF ~(\E c \in _expand_perm(code) : HasPermFn(user, c)) THEN "403"
    ELSE IF ~user.is_authenticated THEN "401"
    ELSE "view"

\* mutant: an empty expansion is not refused
RequirePermNoPermTest(user, code) ==
    IF ~user.is_authenticated THEN "401"
    ELSE IF ~user.has_perm_callable THEN "403"
    ELSE IF _expand_perm(code) # {}
            /\ ~(\E c \in _expand_perm(code) : HasPermFn(user, c)) THEN "403"
    ELSE "view"

\* wrapper of require_perm(code): "401" / "403" are the aborts, "view" is the
\* call of the wrapped view function
RequirePermWrapper(user, code) ==
    IF ~user.is_authenticated THEN "401"
    ELSE IF ~user.has_perm_callable THEN "403"
    ELSE LET wanted == _expand_perm(code)
         IN  IF wanted = {} THEN "403"
             ELSE IF ~(\E c \in wanted : HasPermFn(user, c)) THEN "403"
             ELSE "view"

can(user, code) ==
    IF ~user.is_authenticated THEN FALSE
    ELSE IF ~user.has_perm_callable THEN FALSE
    ELSE LET wanted == _expand_perm(code)
         IN  IF wanted = {} THEN FALSE
             ELSE \E c \in wanted : HasPermFn(user, c)

-----------------------------------------------------------------------------
(* rbac.py: canonical permissions and role templates                        *)

DEFAULT_PERMS == <<
    <<P("dashboard", "view"), "Voir le dashboard">>,
    <<P("subventions", "view"), "Voir les subventions">>,
    <<P("subventions", "edit"), "Creer/editer les subventions">>,
    <<P("subventions", "delete"), "Supprimer les subventions">>,
    <<P("depenses", "view"), "Voir les depenses">>,
    <<P("depenses", "create"), "Creer des depenses">>,
    <<P("depenses", "delete"), "Supprimer les depenses">>,
    <<P("budget", "delete"), "Supprimer une ligne budgetaire">>,
    <<P("projets", "view"), "Voir les projets">>,
    <<P("projets", "edit"), "Creer/editer les projets">>,
    <<P("projets", "delete"), "Supprimer les projets">>,
    <<P("participants", "view"), "Voir les participants">>,
    <<P("participants", "edit"), "Creer/editer les participants">>,
    <<P("participants", "delete"), "Supprimer les participants">>,
    <<P("inventaire", "view"), "Voir l'inventaire">>,
    <<P("inventaire", "edit"), "Creer/editer l'inventaire">>,
    <<P("emargement", "view"), "Voir l'emargement">>,
    <<P("pedagogie", "view"), "Voir la pedagogie">>,
    <<P("stats", "view"), "Voir les stats (secteur)">>,
    <<P("stats", "view_all"), "Voir les stats (tous secteurs)">>,
    <<P("statsimpact", "view"), "Voir les donnees ateliers (secteur)">>,
    <<P("statsimpact", "view_all"), "Voir les donnees ateliers (tous secteurs)">>,
    <<P("controle", "view"), "Acceder au controle">>,
    <<P("bilans", "view"), "Voir les bilans">>,
    <<P("activite", "delete"), "Supprimer une activite">>,
    <<P("activite", "purge"), "Purger des activites">>,
    <<P("ateliers", "view"), "Voir les ateliers">>,
    <<P("ateliers", "sync"), "Synchroniser les ateliers">>,
    <<P("admin", "users"), "Gerer les utilisateurs">>,
    <<P("admin", "rbac"), "Gerer les droits (RBAC)">> >>

\* [code for (code, _) in DEFAULT_PERMS]
DefaultCodes == {DEFAULT_PERMS[i][1] : i \in 1..Len(DEFAULT_PERMS)}

\* the role codes, in the order of the dict ROLE_TEMPLATES
TemplateOrder ==
    <<W("admin_tech"), W("direction"), W("finance"), W("responsable_secteur")>>

ROLE_TEMPLATES ==
    (W("admin_tech") :>
        {P("dashboard", "view"), P("admin", "users"), P("admin", "rbac")})
 @@ (W("direction") :> DefaultCodes)
 @@ (W("finance") :>
        {P("dashboard", "view"),
         P("subventions", "view"), P("subventions", "edit"),
         P("subventions", "delete"),
         P("depenses", "view"), P("depenses", "create"), P("depenses", "delete"),
         P("projets", "view"), P("projets", "edit"), P("projets", "delete"),
         P("participants", "view"), P("inventaire", "view"),
         P("emargement", "view"),
         P("stats", "view"), P("bilans", "view"),
         P("ateliers", "view"), P("ateliers", "sync")})
 @@ (W("responsable_secteur") :>
        {P("dashboard", "view"),
         P("subventions", "view"),
         P("depenses", "view"), P("depenses", "create"),
         P("projets", "view"), P("projets", "edit"),
         P("participants", "view"), P("participants", "edit"),
         P("inventaire", "view"), P("emargement", "view"),
         P("pedagogie", "view"), P("stats", "view"), P("bilans", "view"),
         P("ateliers", "view"), P("ateliers", "sync")})

\* index of the first ":" of s, 0 when there is none
RECURSIVE FirstColon(_, _)
FirstColon(s, i) ==
    IF i > Len(s) THEN 0 ELSE IF s[i] = ":" THEN i ELSE FirstColon(s, i + 1)

\* the upper-case initial of a word (the words that reach str.capitalize)
CapWord(w) ==
    CASE w = "controle" -> "Controle"
      [] w = "activite" -> "Activite"
      [] w = "budget"   -> "Budget"
      [] w = "admin"    -> "Admin"
      [] OTHER          -> w

\* str.capitalize()
capitalize(s) == IF s = <<>> THEN <<>> ELSE <<CapWord(s[1])>> \o lower(Tail(s))

CategoryMapping ==
    (W("dashboard") :> W("Dashboard"))
 @@ (W("subventions") :> W("Subventions"))
 @@ (W("depenses") :> W("Depenses"))
 @@ (W("budget") :> W("Budget"))
 @@ (W("projets") :> W("Projets"))
 @@ (W("participants") :> W("Participants"))
 @@ (W("inventaire") :> W("Inventaire"))
 @@ (W("emargement") :> W("Emargement"))
 @@ (W("pedagogie") :> W("Pedagogie"))
 @@ (W("stats") :> W("Stats"))
 @@ (W("statsimpact") :> <<"Stats", " ", "impact">>)
 @@ (W("bilans") :> W("Bilans"))
 @@ (W("ateliers") :> W("Ateliers"))
 @@ (W("admin") :> W("Admin"))

_category_from_code(code) ==
    LET k      == FirstColon(code, 1)
        module == strip(IF k > 0 THEN SubSeq(code, 1, k - 1) ELSE code)
    IN  IF module \in DOMAIN CategoryMapping
        THEN CategoryMapping[module]
        ELSE capitalize(module)

-----------------------------------------------------------------------------
(* rbac.py: bootstrap_rbac                                                  *)
(* A Permission row is [label, category], keyed by its code; a Role row is  *)
(* [label, permissions], keyed by its code; a User row is [email, nom,      *)
(* role, secteur_assigne, password_hash, roles], keyed by its id.           *)

\* for code, label in DEFAULT_PERMS: insert the missing permission, or
\* bring the label and the category of the existing one up to date
RECURSIVE PermsFrom(_, _, _)
PermsFrom(i, existing, db) ==
    IF i > Len(DEFAULT_PERMS) THEN db
    ELSE LET code    == DEFAULT_PERMS[i][1]
             label   == DEFAULT_PERMS[i][2]
             new_cat == _category_from_code(code)
         IN  IF code \notin DOMAIN existing
             THEN PermsFrom(i + 1, existing,
                      (code :> [label |-> label, category |-> new_cat]) @@ db)
             ELSE LET p  == db[code]
                      p1 == IF p.label # label
                            THEN [p EXCEPT !.label = label] ELSE p
                      p2 == IF p1.category # new_cat
                            THEN [p1 EXCEPT !.category = new_cat] ELSE p1
                  IN  PermsFrom(i + 1, existing, [db EXCEPT ![code] = p2])

\* the permissions part of bootstrap_rbac; the rows written are the same
\* whether the commit guarded by `changed` or the one after the roles
\* persists them
PermsLoop(db) == PermsFrom(1, db, db)

\* mutant: the template permissions are added to what the role already holds
RoleAssignMerge(role, wanted, perms_by_code) ==
    [role EXCEPT !.permissions =
        role.permissions \cup {c \in wanted : c \in DOMAIN perms_by_code}]

\* role.permissions = [perms_by_code[c] for c in wanted if c in perms_by_code]
RoleAssign(role, wanted, perms_by_code) ==
    [role EXCEPT !.permissions = {c \in wanted : c \in DOMAIN perms_by_code}]

\* for role_code, cfg in ROLE_TEMPLATES.items(): create the missing role,
\* then set its permissions
RECURSIVE RolesFrom(_, _, _)
RolesFrom(i, rdb, perms_by_code) ==
    IF i > Len(TemplateOrder) THEN rdb
    ELSE LET role_code == TemplateOrder[i]
             r0 == IF role_code \in DOMAIN rdb THEN rdb
                   ELSE (role_code :> [label |-> role_code, permissions |-> {}])
                        @@ rdb
             wanted == ROLE_TEMPLATES[role_code]
         IN  RolesFrom(i + 1,
                 [r0 EXCEPT ![role_code] =
                     RoleAssign(r0[role_code], wanted, perms_by_code)],
                 perms_by_code)

RolesLoop(rdb, perms_by_code) == RolesFrom(1, rdb, perms_by_code)

\* "financi", "e-grave", "re" spells the accented key
legacy_map ==
    (W("directrice") :> W("direction"))
 @@ (W("direction") :> W("direction"))
 @@ (W("financiere") :> W("finance"))
 @@ (<<"financi", "e-grave", "re">> :> W("finance"))
 @@ (W("finance") :> W("finance"))
 @@ (W("responsable_secteur") :> W("responsable_secteur"))
 @@ (W("admin_tech") :> W("admin_tech"))

\* hasattr(u, "roles"): the User model carries the user_roles relationship
HasRolesAttr == TRUE

\* mutant: the legacy value is looked up without being stripped
SyncUserNoStrip(u, rdb) ==
    LET legacy == OrElse(u.role, W("responsable_secteur"))
        target == IF legacy \in DOMAIN legacy_map THEN legacy_map[legacy] ELSE legacy
    IN  IF target \in DOMAIN rdb /\ target \notin u.roles
        THEN [u EXCEPT !.roles = u.roles \cup {target}]
        ELSE u

\* one iteration of `for u in users` of the legacy synchronisation
SyncUser(u, rdb) ==
    IF ~HasRolesAttr THEN u
    ELSE LET legacy == strip(OrElse(u.role, W("responsable_secteur")))
             target == IF legacy \in DOMAIN legacy_map
                       THEN legacy_map[legacy] ELSE legacy
         IN  IF target \in DOMAIN rdb /\ target \notin u.roles
             THEN [u EXCEPT !.roles = u.roles \cup {target}]
             ELSE u

\* the database after bootstrap_rbac, db.create_all() having succeeded
Bootstrapped(db) ==
    LET p1 == PermsLoop(db.perms)
        r1 == RolesLoop(db.roles, p1)
        u1 == [id \in DOMAIN db.users |-> SyncUser(db.users[id], r1)]
    IN  [perms |-> p1, roles |-> r1, users |-> u1]

-----------------------------------------------------------------------------
(* bootstrap_user.py: ensure_user                                           *)

\* User.set_password: the stored hash is a function of the password alone
PwHash(password) == <<"hash">> \o password

\* User.check_password
CheckPassword(u, password) == u.password_hash = PwHash(password)

\* mutant: the email is stripped but its case is kept
NormEmailKeepCase(email) == strip(OrElse(email, <<>>))

\* email = (email or "").strip().lower()
NormEmail(email) == lower(strip(OrElse(email, <<>>)))

\* User.query.filter_by(email=email).first(): the id of the row, 0 if none
FindUser(udb, email) ==
    IF \E id \in DOMAIN udb : udb[id].email = email
    THEN CHOOSE id \in DOMAIN udb : udb[id].email = email
    ELSE 0

\* the id the database gives to a new row
NewId(udb) ==
    IF DOMAIN udb = {} THEN 1
    ELSE 1 + CHOOSE m \in DOMAIN udb : \A k \in DOMAIN udb : k <= m

\* ensure_user(email, password, role_code, nom, secteur): the database after
\* the call and what it returns; raised = "ValueError" when the email is empty
EnsureUserCall(db, email, password, role_code, nom, secteur) ==
    LET e == NormEmail(email)
    IN  IF e = <<>>
        THEN [db |-> db, raised |-> "ValueError", id |-> 0, created |-> FALSE]
        ELSE
        LET found   == FindUser(db.users, e)
            created == found = 0
            id      == IF created THEN NewId(db.users) ELSE found
            u0 == IF created
                  THEN [email |-> e, nom |-> OrElse(nom, W("Utilisateur")),
                        role |-> None, secteur_assigne |-> None,
                        password_hash |-> None, roles |-> {}]
                  ELSE db.users[id]
            u1 == [u0 EXCEPT !.role = IF role_code = W("direction")
                                      THEN W("directrice") ELSE role_code]
            u2 == IF secteur # None
                  THEN [u1 EXCEPT !.secteur_assigne = secteur] ELSE u1
            u3 == [u2 EXCEPT !.password_hash = PwHash(password)]
            rdb == IF role_code \in DOMAIN db.roles THEN db.roles
                   ELSE (role_code :> [label |-> role_code, permissions |-> {}])
                        @@ db.roles
            u4 == IF HasRolesAttr /\ role_code \notin u3.roles
                  THEN [u3 EXCEPT !.roles = u3.roles \cup {role_code}] ELSE u3
        IN  [db |-> [perms |-> db.perms, roles |-> rdb,
                     users |-> (id :> u4) @@ db.users],
             raised |-> "no", id |-> id, created |-> created]

-----------------------------------------------------------------------------
(* app/__init__.py: ensure_schema                                           *)
(* The schema is [tables, cols, indexes, notnull]: the tables that exist,   *)
(* the columns as <<table, column>>, the indexes as <<table, index>> and    *)
(* the NOT NULL columns as <<table, column>>.                               *)

AddCol(t, c)      == [kind |-> "add_col", table |-> t, name |-> c]
CreateIndex(t, n) == [kind |-> "create_index", table |-> t, name |-> n]
DropNotNull(t, c) == [kind |-> "drop_not_null", table |-> t, name |-> c]

\* the seven try blocks of ensure_schema, each with its statements in order
MigrationSteps == <<
    <<AddCol("ligne_budget", "nature")>>,
    <<AddCol("session_activite", "is_deleted"),
      AddCol("session_activite", "deleted_at"),
      AddCol("session_activite", "kiosk_open"),
      AddCol("session_activite", "kiosk_pin"),
      AddCol("session_activite", "kiosk_token"),
      AddCol("session_activite", "kiosk_opened_at")>>,
    <<AddCol("atelier_activite", "is_deleted"),
      AddCol("atelier_activite", "deleted_at")>>,
    <<AddCol("participant", "signature_path"),
      AddCol("participant", "sexe"),
      AddCol("participant", "type_public"),
      AddCol("participant", "ville"),
      AddCol("participant", "quartier_id")>>,
    <<AddCol("archive_emargement", "is_deleted"),
      AddCol("archive_emargement", "deleted_at")>>,
    <<CreateIndex("presence_activite", "idx_uq_presence_session_participant")>>,
    <<AddCol("depense", "facture_ligne_id"),
      AddCol("depense", "facture_quantite"),
      AddCol("depense", "charge_projet_id"),
      DropNotNull("depense", "ligne_budget_id")>> >>

NSteps == Len(MigrationSteps)

\* get_cols(table): the column names the inspector reports; none when the
\* table is missing or when the inspection raises
get_cols(sch, table, inspection_raises) ==
    IF inspection_raises \/ table \notin sch.tables THEN {}
    ELSE {pc2[2] : pc2 \in {x \in sch.cols : x[1] = table}}

\* mutant: add_col does not look at the existing columns
AddColNeededAlways(sch, stmt, inspection_raises) == TRUE

\* add_col: whether the ALTER TABLE ... ADD COLUMN statement is executed
AddColNeeded(sch, stmt, inspection_raises) ==
    stmt.name \notin get_cols(sch, stmt.table, inspection_raises)

\* whether the database refuses the statement: no such table, or (SQLite,
\* whose ADD COLUMN has no IF NOT EXISTS) a column that already exists
Refused(dia, work, stmt) ==
    \/ stmt.table \notin work.tables
    \/ /\ stmt.kind = "add_col"
       /\ dia = "sqlite"
       /\ <<stmt.table, stmt.name>> \in work.cols

\* the schema once the statement has been executed
Applied(work, stmt) ==
    CASE stmt.kind = "add_col" ->
            [work EXCEPT !.cols = @ \cup {<<stmt.table, stmt.name>>}]
      [] stmt.kind = "create_index" ->
            [work EXCEPT !.indexes = @ \cup {<<stmt.table, stmt.name>>}]
      [] stmt.kind = "drop_not_null" ->
            [work EXCEPT !.notnull = @ \ {<<stmt.table, stmt.name>>}]

\* One try block, statement by statement.  st = [work, events, raised,
\* swallowed]: the schema as the open transaction sees it, what each
\* statement did, whether an exception reached the block's except clause,
\* and whether the inner try of step 7 swallowed one.  F: the statements the
\* environment makes raise; I: the add_col calls whose inspection raises.
RECURSIVE ExecFrom(_, _, _, _, _, _, _)
ExecFrom(stmts, i, dia, committed, st, F, I) ==
    IF i > Len(stmts) \/ st.raised THEN st
    ELSE
    LET stmt    == stmts[i]
        present == <<stmt.table, stmt.name>> \in st.work.cols
        Ev(did) == [stmt |-> i, kind |-> stmt.kind, table |-> stmt.table,
                    name |-> stmt.name, did |-> did, present |-> present,
                    inspected |-> (stmt.kind = "add_col" /\ i \notin I)]
        fails   == i \in F \/ Refused(dia, st.work, stmt)
        next ==
          IF stmt.kind = "add_col" /\ ~AddColNeeded(committed, stmt, i \in I)
          THEN [st EXCEPT !.events = Append(@, Ev("skip"))]
          ELSE IF stmt.kind = "drop_not_null" /\ dia # "postgresql"
          THEN st
          ELSE IF fails /\ stmt.kind = "drop_not_null"
          THEN [st EXCEPT !.events = Append(@, Ev("raise")),
                          !.swallowed = TRUE]
          ELSE IF fails
          THEN [st EXCEPT !.events = Append(@, Ev("raise")), !.raised = TRUE]
          ELSE [st EXCEPT !.events = Append(@, Ev("exec")),
                          !.work = Applied(st.work, stmt)]
    IN  ExecFrom(stmts, i + 1, dia, committed, next, F, I)

\* mutant: the commit is issued even when a statement raised
StepOutcomeAlwaysCommit(st) == "commit"

\* db.session.commit() at the end of the try block, db.session.rollback()
\* in its except clauses
StepOutcome(st) == IF st.raised THEN "rollback" ELSE "commit"

\* the record of try block k run on the committed schema sch; commit_applies:
\* whether a commit issued after a swallowed failure still applies the
\* transaction (the database decides)
RunStep(k, dia, sch, F, I, commit_applies) ==
    LET st == ExecFrom(MigrationSteps[k], 1, dia, sch,
                       [work |-> sch, events |-> <<>>, raised |-> FALSE,
                        swallowed |-> FALSE], F, I)
        outcome == StepOutcome(st)
        after   == IF outcome = "commit" /\ (commit_applies \/ ~st.swallowed)
                   THEN st.work ELSE sch
    IN  [step |-> k, events |-> st.events, raised |-> st.raised,
         swallowed |-> st.swallowed, outcome |-> outcome,
         added |-> after.cols \ sch.cols, after |-> after]

\* the injected failures F and I are exactly ones the block ran into
Met(rec, F, I) ==
    LET evs == {rec.events[j] : j \in 1..Len(rec.events)}
    IN  /\ F \subseteq {e.stmt : e \in {x \in evs : x.did = "raise"}}
        /\ I \subseteq {e.stmt : e \in {x \in evs : x.kind = "add_col"}}

AllStatements ==
    UNION {{MigrationSteps[k][i] : i \in 1..Len(MigrationSteps[k])} :
              k \in 1..NSteps}

\* the tables of the application's models that ensure_schema touches
ModelTables == {s.table : s \in AllStatements}

\* the columns the current models declare for them
ModelColumns ==
    {<<s.table, s.name>> : s \in {x \in AllStatements : x.kind = "add_col"}}

\* db.create_all(): creates the tables that are missing, from the current
\* models; a table that exists is left as it is
CreateAllSchema(sch) ==
    LET new == ModelTables \ sch.tables
    IN  [sch EXCEPT !.tables = @ \cup ModelTables,
                    !.cols   = @ \cup {x \in ModelColumns : x[1] \in new}]

-----------------------------------------------------------------------------
(* The program: bootstrap_user.main, which calls create_app                 *)

\* mutant: create_app bootstraps the RBAC before it creates the tables
ProgramRbacFirst == <<
    <<"create_app", "bootstrap_rbac">>,
    <<"create_app", "db.create_all">>,
    <<"create_app", "ensure_schema">>,
    <<"main", "db.create_all">>,
    <<"main", "bootstrap_rbac">>,
    <<"main", "ensure_user">> >>

\* the calls of create_app's "Init DB" block, then those of main's
\* app_context block, as <<caller, callee>>
Program == <<
    <<"create_app", "db.create_all">>,
    <<"create_app", "ensure_schema">>,
    <<"create_app", "bootstrap_rbac">>,
    <<"main", "db.create_all">>,
    <<"main", "bootstrap_rbac">>,
    <<"main", "ensure_user">> >>

At(callee) ==
    /\ pc.state = "run"
    /\ pc.i <= Len(Program)
    /\ Program[pc.i][2] = callee

CallEv(i) == <<"call", Program[i][1], Program[i][2]>>
RetEv(i)  == <<"ret", Program[i][1], Program[i][2]>>

Advance == [i |-> pc.i + 1,
            state |-> IF pc.i + 1 > Len(Program) THEN "done" ELSE "run"]

DB == [perms |-> perms, roles |-> roles, users |-> users]

\* db.create_all() called from create_app or from main: an exception is not
\* caught and ends the program
CallCreateAll ==
    /\ At("db.create_all")
    /\ \E ok \in BOOLEAN :
         IF ok
         THEN /\ schema' = CreateAllSchema(schema)
              /\ pc' = Advance
              /\ trace' = trace \o <<CallEv(pc.i), RetEv(pc.i)>>
         ELSE /\ schema' = schema
              /\ pc' = [pc EXCEPT !.state = "crashed"]
              /\ trace' = Append(trace, CallEv(pc.i))
    /\ UNCHANGED <<permVars, dbVars, dialect, schema0, step, run, slog, budget,
                   last>>

\* ensure_schema is entered: dialect and inspector are read
EnsureSchemaBegin ==
    /\ At("ensure_schema")
    /\ step = 0
    /\ step' = 1
    /\ pc' = [pc EXCEPT !.state = "in"]
    /\ trace' = Append(trace, CallEv(pc.i))
    /\ UNCHANGED <<permVars, dbVars, dialect, schema, schema0, run, slog, budget,
                   last>>

\* one try block of ensure_schema, with its commit or rollback
MigrationStep ==
    /\ pc.state = "in"
    /\ step \in 1..NSteps
    /\ \E F \in SUBSET (1..Len(MigrationSteps[step])) :
         /\ Cardinality(F) <= budget
         /\ \E I \in SUBSET (1..Len(MigrationSteps[step])) :
              /\ Cardinality(F) + Cardinality(I) <= budget
              /\ \E commit_applies \in BOOLEAN :
                   LET rec == RunStep(step, dialect, schema, F, I, commit_applies)
                   IN  /\ Met(rec, F, I)
                       /\ commit_applies \/ rec.swallowed
                       /\ schema' = rec.after
                       /\ slog' = [slog EXCEPT ![run] = Append(@, rec)]
                       /\ budget' = budget - (Cardinality(F) + Cardinality(I))
    /\ step' = step + 1
    /\ UNCHANGED <<permVars, dbVars, dialect, schema0, run, pc, trace, last>>

\* ensure_schema returns to create_app
EnsureSchemaReturn ==
    /\ pc.state = "in"
    /\ pc.i <= Len(Program)
    /\ Program[pc.i][2] = "ensure_schema"
    /\ step = NSteps + 1
    /\ pc' = Advance
    /\ trace' = Append(trace, RetEv(pc.i))
    /\ step' = 0
    /\ UNCHANGED <<permVars, dbVars, dialect, schema, schema0, run, slog, budget,
                   last>>

\* bootstrap_rbac(): when its db.create_all() raises it logs and returns
CallBootstrapRbac ==
    /\ At("bootstrap_rbac")
    /\ \E ok \in BOOLEAN :
         LET post == IF ok THEN Bootstrapped(DB) ELSE DB
         IN  /\ perms' = post.perms
             /\ roles' = post.roles
             /\ users' = post.users
             /\ schema' = IF ok THEN CreateAllSchema(schema) ELSE schema
             /\ last' = [op |-> "bootstrap_rbac", completed |-> ok, pre |-> DB,
                         args |-> <<>>, raised |-> "no", id |-> 0,
                         created |-> FALSE]
             /\ trace' = trace \o <<CallEv(pc.i)>>
                          \o <<<<"call", "bootstrap_rbac", "db.create_all">>>>
                          \o (IF ok
                              THEN <<<<"ret", "bootstrap_rbac", "db.create_all">>>>
                              ELSE <<>>)
                          \o <<RetEv(pc.i)>>
    /\ pc' = Advance
    /\ UNCHANGED <<permVars, dialect, schema0, step, run, slog, budget>>

\* the command-line arguments main can pass to ensure_user; --role is
\* restricted by argparse to the four template roles
ArgEmails    == {<<>>, <<" ", "A", " ">>, W("b")}
ArgPasswords == {W("admin1234")}
ArgRoles     == {TemplateOrder[i] : i \in 1..Len(TemplateOrder)}
ArgNomSecteur == {<<W("Admin"), None>>, <<None, W("S1")>>}

\* ensure_user(...) called from main: its ValueError is not caught
CallEnsureUser ==
    /\ At("ensure_user")
    /\ \E email \in ArgEmails, password \in ArgPasswords, role_code \in ArgRoles,
          ns \in ArgNomSecteur :
         LET r == EnsureUserCall(DB, email, password, role_code, ns[1], ns[2])
         IN  /\ perms' = r.db.perms
             /\ roles' = r.db.roles
             /\ users' = r.db.users
             /\ last' = [op |-> "ensure_user", completed |-> r.raised = "no",
                         pre |-> DB,
                         args |-> [email |-> email, password |-> password,
                                   role_code |-> role_code, nom |-> ns[1],
                                   secteur |-> ns[2]],
                         raised |-> r.raised, id |-> r.id,
                         created |-> r.created]
             /\ pc' = IF r.raised = "no" THEN Advance
                      ELSE [pc EXCEPT !.state = "crashed"]
             /\ trace' = IF r.raised = "no"
                         THEN trace \o <<CallEv(pc.i), RetEv(pc.i)>>
                         ELSE Append(trace, CallEv(pc.i))
    /\ UNCHANGED <<permVars, schemaVars>>

-----------------------------------------------------------------------------
(* Initial states                                                           *)

\* bounds of the model
MaxUsers  == 2      \* users in the initial database
MaxFaults == 1      \* failures injected into the ensure_schema runs
MaxRuns   == 2      \* application starts (ensure_schema runs)

Anonymous == [is_authenticated |-> FALSE, has_perm_callable |-> FALSE, held |-> {}]

NoCall == [op |-> "none", code |-> <<>>]

NoLast == [op |-> "none", completed |-> FALSE,
           pre |-> [perms |-> <<>>, roles |-> <<>>, users |-> <<>>],
           args |-> <<>>, raised |-> "no", id |-> 0, created |-> FALSE]

NoOut == [status |-> "none", value |-> FALSE]

PermIdle == current_user = Anonymous /\ call = NoCall /\ out = NoOut

Empty == <<>>   \* the function with the empty domain: a table without rows

\* a database created before any of the migrations: every table, none of
\* the added columns, depense.ligne_budget_id still NOT NULL
OldSchema ==
    [tables |-> ModelTables, cols |-> {}, indexes |-> {},
     notnull |-> {<<"depense", "ligne_budget_id">>}]

\* a database without tables
EmptySchema == [tables |-> {}, cols |-> {}, indexes |-> {}, notnull |-> {}]

\* columns present at the start, per table: none, the first one the
\* migration adds, or all of them
StartColumns(kind, ts) ==
    IF kind = "none" THEN {}
    ELSE IF kind = "all" THEN {x \in ModelColumns : x[1] \in ts}
    ELSE {<<MigrationSteps[k][1].table, MigrationSteps[k][1].name>> :
            k \in {j \in 1..NSteps : MigrationSteps[j][1].kind = "add_col"
                                     /\ MigrationSteps[j][1].table \in ts}}

SchemaAt(kind, missing) ==
    [tables  |-> ModelTables \ missing,
     cols    |-> {x \in StartColumns(kind, ModelTables) : x[1] \notin missing},
     indexes |-> {},
     notnull |-> {<<"depense", "ligne_budget_id">>} \ (missing \X {"ligne_budget_id"})]

\* the schemas ensure_schema may find: every table with none, some or all of
\* the added columns, or a table missing
SchemaChoices ==
    {SchemaAt(kind, {}) : kind \in {"none", "first", "all"}}
    \cup {SchemaAt("first", {"depense"}), SchemaAt("all", {"session_activite"})}

\* --- rows of the initial database ---

CanonicalRow(i) == [label    |-> DEFAULT_PERMS[i][2],
                    category |-> _category_from_code(DEFAULT_PERMS[i][1])]

CanonicalPerms ==
    [c \in DefaultCodes |->
        CanonicalRow(CHOOSE i \in 1..Len(DEFAULT_PERMS) : DEFAULT_PERMS[i][1] = c)]

\* a permission row in one of the states an earlier version left it in
ProbeRow(c, kind) ==
    CASE kind = "canonical"   -> CanonicalPerms[c]
      [] kind = "stale_label" -> [CanonicalPerms[c] EXCEPT !.label = "ancien libelle"]
      [] kind = "stale_cat"   -> [CanonicalPerms[c] EXCEPT !.category = None]

ExtraPerm == P("legacy", "export")
ExtraRow  == [label |-> "Export (ancien)", category |-> W("Legacy")]

PermsChoices ==
    {    (IF k1 = "absent" THEN Empty
          ELSE (P("dashboard", "view") :> ProbeRow(P("dashboard", "view"), k1)))
      @@ (IF k2 = "absent" THEN Empty
          ELSE (P("controle", "view") :> ProbeRow(P("controle", "view"), k2)))
      @@ (IF extra THEN (ExtraPerm :> ExtraRow) ELSE Empty)
      @@ (IF base THEN CanonicalPerms ELSE Empty) :
        k1 \in {"absent", "canonical", "stale_label", "stale_cat"},
        k2 \in {"absent", "stale_cat"},
        extra \in BOOLEAN, base \in BOOLEAN}

RoleRowChoice(code, kind, pdb) ==
    IF kind = "absent" THEN Empty
    ELSE code :> [label |-> code,
                  permissions |-> IF kind = "all" THEN DOMAIN pdb ELSE {}]

RolesChoices(pdb) ==
    {    RoleRowChoice(W("admin_tech"), ka, pdb)
      @@ RoleRowChoice(W("finance"), kf, pdb)
      @@ RoleRowChoice(W("benevole"), kb, pdb) :
        ka \in {"absent", "none", "all"}, kf \in {"absent", "none", "all"},
        kb \in {"absent", "all"}}

UserRow(email, legacy, held) ==
    [email |-> email, nom |-> W("Nom"), role |-> legacy, secteur_assigne |-> None,
     password_hash |-> PwHash(W("old")), roles |-> held]

\* users as earlier versions of the application may have left them
UserChoices == <<
    UserRow(W("a"), None, {}),
    UserRow(W("A"), <<>>, {}),
    UserRow(W("b"), W("directrice"), {}),
    UserRow(W("u4"), Pad(W("finance")), {}),
    UserRow(W("u5"), <<"financi", "e-grave", "re">>, {}),
    UserRow(W("u6"), W("financiere"), {}),
    UserRow(W("u7"), W("direction"), {}),
    UserRow(W("u8"), W("responsable_secteur"), {}),
    UserRow(W("u9"), W("admin_tech"), {W("benevole")}),
    UserRow(W("u10"), W("benevole"), {}),
    UserRow(W("u11"), <<" ">>, {}),
    UserRow(W("u12"), W("benevole"), {W("benevole")}),
    UserRow(W("u13"), W("finance"), {W("finance")}),
    UserRow(W("u14"), Pad(W("benevole")), {}) >>

UsersChoices(rdb) ==
    {[id \in ids |-> UserChoices[id]] :
        ids \in {S \in SUBSET (1..Len(UserChoices)) :
                    /\ Cardinality(S) <= MaxUsers
                    /\ \A id \in S : UserChoices[id].roles \subseteq DOMAIN rdb}}

DefaultUsers == 1 :> UserChoices[1]

InitDatabase ==
    \/ /\ perms \in PermsChoices
       /\ roles \in RolesChoices(perms)
       /\ users = DefaultUsers
    \/ /\ perms \in {Empty, CanonicalPerms}
       /\ roles \in {Empty, W("benevole") :> [label |-> W("benevole"),
                                              permissions |-> {}]}
       /\ users \in UsersChoices(roles)

Init ==
    /\ PermIdle
    /\ InitDatabase
    /\ \E ds \in {<<"sqlite", OldSchema>>, <<"postgresql", EmptySchema>>} :
         dialect = ds[1] /\ schema = ds[2]
    /\ schema0 = schema
    /\ step = 0
    /\ run = 1
    /\ slog = [r \in 1..MaxRuns |-> <<>>]
    /\ budget = 0
    /\ pc = [i |-> 1, state |-> "run"]
    /\ trace = <<>>
    /\ last = NoLast

Next ==
    \/ CallCreateAll
    \/ EnsureSchemaBegin
    \/ MigrationStep
    \/ EnsureSchemaReturn
    \/ CallBootstrapRbac
    \/ CallEnsureUser

Spec == Init /\ [][Next]_vars

-----------------------------------------------------------------------------
(* ensure_schema on its own: several application starts on one database,    *)
(* with statements and inspections that may raise                           *)

\* the application is started again: a new ensure_schema run, with a new
\* inspector
Rerun ==
    /\ pc.state = "in"
    /\ step = NSteps + 1
    /\ run < MaxRuns
    /\ run' = run + 1
    /\ step' = 1
    /\ UNCHANGED <<permVars, dbVars, dialect, schema, schema0, slog, budget, pc,
                   trace, last>>

InitSchema ==
    /\ PermIdle
    /\ perms = Empty /\ roles = Empty /\ users = Empty
    /\ dialect \in {"sqlite", "postgresql"}
    /\ schema \in SchemaChoices
    /\ schema0 = schema
    /\ step = 1
    /\ run = 1
    /\ slog = [r \in 1..MaxRuns |-> <<>>]
    /\ budget = MaxFaults
    /\ pc = [i |-> 2, state |-> "in"]
    /\ trace = <<CallEv(1), RetEv(1), CallEv(2)>>
    /\ last = NoLast

NextSchema == MigrationStep \/ Rerun

SpecSchema == InitSchema /\ [][NextSchema]_vars

-----------------------------------------------------------------------------
(* Requests: views wrapped with require_perm, and the template helper can   *)

\* the codes has_perm is asked about
HeldUniverse ==
    {P("stats", "view"), P("statsimpact", "view"), P("bilans", "view"),
     P("projets", "edit")}

UserStates ==
    [is_authenticated : BOOLEAN, has_perm_callable : BOOLEAN,
     held : SUBSET HeldUniverse]

\* the codes views and templates ask for
ReqCodes ==
    {None, <<>>, <<" ">>, <<" ", " ">>,
     P("stats", "view"), Pad(P("stats", "view")),
     P("statsimpact", "view"), Pad(P("statsimpact", "view")),
     P("bilan", "view"), P("bilans", "view"), W("projets_edit"),
     P("admin", "rbac")}

\* a request reaches a view decorated with @require_perm(code)
Request ==
    /\ \E u \in UserStates, code \in ReqCodes :
         /\ current_user' = u
         /\ call' = [op |-> "require_perm", code |-> code]
         /\ out' = [status |-> RequirePermWrapper(u, code), value |-> FALSE]
    /\ UNCHANGED <<dbVars, schemaVars, progVars, last>>

\* a template evaluates can(code)
Ask ==
    /\ \E u \in UserStates, code \in ReqCodes :
         /\ current_user' = u
         /\ call' = [op |-> "can", code |-> code]
         /\ out' = [status |-> "returned", value |-> can(u, code)]
    /\ UNCHANGED <<dbVars, schemaVars, progVars, last>>

InitPerm ==
    /\ PermIdle
    /\ perms = Empty /\ roles = Empty /\ users = Empty
    /\ dialect = "sqlite"
    /\ schema = OldSchema
    /\ schema0 = schema
    /\ step = 0
    /\ run = 1
    /\ slog = [r \in 1..MaxRuns |-> <<>>]
    /\ budget = 0
    /\ pc = [i |-> Len(Program) + 1, state |-> "done"]
    /\ trace = <<>>
    /\ last = NoLast

NextPerm == Request \/ Ask

SpecPerm == InitPerm /\ [][NextPerm]_vars

-----------------------------------------------------------------------------
(* Properties of require_perm, can and _expand_perm (SpecPerm)              *)

\* the code is None, empty or made of blanks only
Blank(code) == code = None \/ \A i \in 1..Len(code) : code[i] = " "

IsRequest == call.op = "require_perm"

HoldsOneOf(codes) == \E c \in codes : c \in current_user.held

\* C1: the view wrapped with require_perm(code) is invoked exactly when the
\* current user is authenticated, has a callable has_perm, and has_perm(c)
\* is true for at least one c of _expand_perm(code); in every other case
\* the view is not invoked.
C1_ViewOnlyWithPermission ==
    IsRequest =>
        (out.status = "view" <=>
            /\ current_user.is_authenticated
            /\ current_user.has_perm_callable
            /\ HoldsOneOf(_expand_perm(call.code)))

\* a user holding only stats:view is let into a view that asks for
\* " statsimpact:view "
C1_Witness ==
    /\ IsRequest
    /\ out.status = "view"
    /\ call.code = Pad(P("statsimpact", "view"))
    /\ current_user.held = {P("stats", "view")}

\* C2: authentication is checked first.  An unauthenticated user gets 401
\* whatever the code; an authenticated user gets 403 exactly when has_perm
\* is missing, the code is blank, or none of the expanded codes is held;
\* 401 never goes to an authenticated user nor 403 to an unauthenticated one.
C2_AbortCodes ==
    IsRequest =>
        /\ ~current_user.is_authenticated => out.status = "401"
        /\ current_user.is_authenticated =>
              (out.status = "403" <=>
                  \/ ~current_user.has_perm_callable
                  \/ Blank(call.code)
                  \/ ~HoldsOneOf(_expand_perm(call.code)))
        /\ out.status = "401" => ~current_user.is_authenticated
        /\ out.status = "403" => current_user.is_authenticated

\* an unauthenticated user whose object does answer has_perm asks for a
\* blank code and gets 401, not 403
C2_Witness ==
    /\ IsRequest
    /\ ~current_user.is_authenticated
    /\ current_user.has_perm_callable
    /\ current_user.held = {P("stats", "view")}
    /\ call.code = <<" ">>
    /\ out.status = "401"

\* the historical codes and the canonical code each one stands for, as the
\* claim lists them
HistoricalCodes ==
    {P("statsimpact", "view"), P("bilan", "view"),
     <<"bilans", ":", "lourds", ":", "view">>,
     P("participants", "update"), P("participants", "write"),
     P("participant", "edit"), W("projets_edit")}

CanonicalOf(c) ==
    CASE c = P("statsimpact", "view") -> P("stats", "view")
      [] c \in {P("bilan", "view"), <<"bilans", ":", "lourds", ":", "view">>}
            -> P("bilans", "view")
      [] c \in {P("participants", "update"), P("participants", "write"),
                P("participant", "edit")} -> P("participants", "edit")
      [] c = W("projets_edit") -> P("projets", "edit")

\* C9: for a user who can be asked (authenticated, callable has_perm), a
\* check for a historical code passes exactly when the user holds that code
\* or its canonical equivalent; a check for any other non-blank code passes
\* exactly when the user holds that very code (holding statsimpact:view does
\* not satisfy stats:view); and the stripped code is always in its expansion.
C9_OneWayEquivalence ==
    (call.op = "can" /\ ~Blank(call.code)) =>
        LET c == strip(call.code)
            askable == current_user.is_authenticated
                       /\ current_user.has_perm_callable
        IN  /\ c \in _expand_perm(call.code)
            /\ (askable /\ c \in HistoricalCodes) =>
                  (out.value <=> HoldsOneOf({c, CanonicalOf(c)}))
            /\ (askable /\ c \notin HistoricalCodes) =>
                  (out.value <=> c \in current_user.held)
            /\ (askable /\ c \in current_user.held) => out.value
            /\ ~askable => ~out.value

\* statsimpact:view is asked of a user who holds only stats:view: granted
C9_Witness ==
    /\ call.op = "can"
    /\ call.code = P("statsimpact", "view")
    /\ current_user.is_authenticated
    /\ current_user.has_perm_callable
    /\ current_user.held = {P("stats", "view")}
    /\ out.value

-----------------------------------------------------------------------------
(* Properties of bootstrap_rbac (Spec)                                      *)

\* bootstrap_rbac has just run to its end, db.create_all() having succeeded
BootstrapDone == last.op = "bootstrap_rbac" /\ last.completed

AdminTechPerms == {P("dashboard", "view"), P("admin", "users"), P("admin", "rbac")}

\* C3: after bootstrap_rbac completes, whatever the database held before,
\* every code of DEFAULT_PERMS is a Permission with the canonical label and
\* category, the four template roles exist, and each one's permission set
\* is exactly its ROLE_TEMPLATES list (direction: every default code;
\* admin_tech: dashboard:view, admin:users, admin:rbac only).
C3_BootstrapCanonical ==
    BootstrapDone =>
        /\ \A i \in 1..Len(DEFAULT_PERMS) :
              LET code == DEFAULT_PERMS[i][1]
              IN  /\ code \in DOMAIN perms
                  /\ perms[code].label = DEFAULT_PERMS[i][2]
                  /\ perms[code].category = _category_from_code(code)
        /\ perms[P("dashboard", "view")].category = W("Dashboard")
        /\ perms[P("statsimpact", "view_all")].category = <<"Stats", " ", "impact">>
        /\ perms[P("controle", "view")].category = W("Controle")
        /\ \A r \in {W("admin_tech"), W("direction"), W("finance"),
                     W("responsable_secteur")} :
              /\ r \in DOMAIN roles
              /\ roles[r].permissions = ROLE_TEMPLATES[r]
        /\ roles[W("direction")].permissions =
              {DEFAULT_PERMS[i][1] : i \in 1..Len(DEFAULT_PERMS)}
        /\ roles[W("admin_tech")].permissions = AdminTechPerms
        /\ Cardinality(roles[W("finance")].permissions) = 17
        /\ Cardinality(roles[W("responsable_secteur")].permissions) = 15

\* bootstrap_rbac completed on a database where dashboard:view had an old
\* label, admin_tech held a permission outside its template and finance
\* did not exist
C3_Witness ==
    /\ BootstrapDone
    /\ P("dashboard", "view") \in DOMAIN last.pre.perms
    /\ last.pre.perms[P("dashboard", "view")].label # "Voir le dashboard"
    /\ W("admin_tech") \in DOMAIN last.pre.roles
    /\ ExtraPerm \in last.pre.roles[W("admin_tech")].permissions
    /\ W("finance") \notin DOMAIN last.pre.roles
    /\ ExtraPerm \notin roles[W("admin_tech")].permissions

\* the RBAC role the claim assigns to a legacy value v (None when the claim
\* names none)
ClaimedRole(v) ==
    LET t == IF v = None THEN <<>> ELSE strip(v)
    IN  CASE v = None \/ v = <<>> -> W("responsable_secteur")
          [] t \in {W("directrice"), W("direction")} -> W("direction")
          [] t \in {W("financiere"), <<"financi", "e-grave", "re">>, W("finance")}
                -> W("finance")
          [] t = W("responsable_secteur") -> W("responsable_secteur")
          [] t = W("admin_tech") -> W("admin_tech")
          [] OTHER -> None

\* every user holds the role the claim assigns to the legacy value
MappedRolesHeld ==
    \A id \in DOMAIN users :
        ClaimedRole(users[id].role) # None =>
            ClaimedRole(users[id].role) \in users[id].roles

\* C4 as stated: after bootstrap_rbac completes every existing user holds
\* the role its legacy value maps to, a null or empty legacy value giving
\* responsable_secteur, so that every existing user holds at least one role.
C4_Original ==
    BootstrapDone =>
        /\ MappedRolesHeld
        /\ \A id \in DOMAIN users : users[id].roles # {}

\* C4 amended: after bootstrap_rbac completes every existing user whose
\* legacy value is null, empty or (once stripped) one of the seven mapped
\* values holds the mapped role; a user whose stripped legacy value is the
\* code of an existing role holds that role; any other user (a blank or
\* unknown legacy value that names no role) keeps exactly the roles it had,
\* which may be none.  No user loses a role.
C4_LegacySync ==
    BootstrapDone =>
        /\ MappedRolesHeld
        /\ \A id \in DOMAIN users :
              LET before == last.pre.users[id].roles
                  v == users[id].role
                  t == IF v = None THEN <<>> ELSE strip(v)
              IN  /\ before \subseteq users[id].roles
                  /\ ClaimedRole(v) # None =>
                        users[id].roles = before \cup {ClaimedRole(v)}
                  /\ (ClaimedRole(v) = None /\ t \in DOMAIN roles) =>
                        users[id].roles = before \cup {t}
                  /\ (ClaimedRole(v) = None /\ t \notin DOMAIN roles) =>
                        users[id].roles = before

\* after a completed bootstrap_rbac a user with legacy value " finance "
\* and no role before holds finance, while a user with the unknown legacy
\* value "benevole" still holds no role
C4_Witness ==
    /\ BootstrapDone
    /\ \E a, b \in DOMAIN users :
          /\ users[a].role = Pad(W("finance"))
          /\ last.pre.users[a].roles = {}
          /\ users[a].roles = {W("finance")}
          /\ users[b].role = W("benevole")
          /\ users[b].roles = {}

-----------------------------------------------------------------------------
(* Properties of ensure_user (Spec)                                         *)

EnsureUserDone == last.op = "ensure_user"

WithEmail(udb, e) == {id \in DOMAIN udb : udb[id].email = e}

\* C5: after ensure_user(email, password, role_code, ...) returns, exactly
\* one user has the stripped, lower-cased email, that user's password is
\* the given one, a Role role_code exists (created with no permission when
\* it was missing) and the user holds it; created is true iff no user had
\* the normalized email before; a blank email raises ValueError and changes
\* nothing.
C5_EnsureUser ==
    EnsureUserDone =>
        LET a == last.args
            e == lower(strip(a.email))
        IN  IF Blank(a.email)
            THEN /\ last.raised = "ValueError"
                 /\ DB = last.pre
            ELSE /\ last.raised = "no"
                 /\ WithEmail(users, e) = {last.id}
                 /\ CheckPassword(users[last.id], a.password)
                 /\ a.role_code \in DOMAIN roles
                 /\ a.role_code \in users[last.id].roles
                 /\ a.role_code \notin DOMAIN last.pre.roles =>
                       roles[a.role_code].permissions = {}
                 /\ last.created <=> WithEmail(last.pre.users, e) = {}
                 /\ \A c \in DOMAIN last.pre.roles : roles[c] = last.pre.roles[c]
                 /\ perms = last.pre.perms

\* ensure_user(" A ", ..., finance) on a database that holds the user "a" and
\* the user "A" but no finance role: the user "a" is updated, not created,
\* and the role is created
C5_Witness ==
    /\ EnsureUserDone
    /\ last.args.email = <<" ", "A", " ">>
    /\ ~last.created
    /\ \E id \in DOMAIN last.pre.users : last.pre.users[id].email = W("A")
    /\ last.args.role_code = W("finance")
    /\ W("finance") \notin DOMAIN last.pre.roles
    /\ ~CheckPassword(last.pre.users[last.id], last.args.password)

-----------------------------------------------------------------------------
(* Order of the database initialisation (Spec)                              *)

\* the calls create_app and main make themselves, in the order claimed
ExpectedCalls == <<
    <<"call", "create_app", "db.create_all">>,
    <<"ret", "create_app", "db.create_all">>,
    <<"call", "create_app", "ensure_schema">>,
    <<"ret", "create_app", "ensure_schema">>,
    <<"call", "create_app", "bootstrap_rbac">>,
    <<"ret", "create_app", "bootstrap_rbac">>,
    <<"call", "main", "db.create_all">>,
    <<"ret", "main", "db.create_all">>,
    <<"call", "main", "bootstrap_rbac">>,
    <<"ret", "main", "bootstrap_rbac">>,
    <<"call", "main", "ensure_user">>,
    <<"ret", "main", "ensure_user">> >>

ByProgram(ev) == ev[2] \in {"create_app", "main"}

IsPrefix(s, t) == Len(s) <= Len(t) /\ \A i \in 1..Len(s) : s[i] = t[i]

Returned(caller, callee) ==
    \E i \in 1..Len(trace) : trace[i] = <<"ret", caller, callee>>

Called(caller, callee) ==
    \E i \in 1..Len(trace) : trace[i] = <<"call", caller, callee>>

-----------------------------------------------------------------------------
(* Properties of ensure_schema (SpecSchema)                                 *)

StepRecs(r) == {slog[r][j] : j \in 1..Len(slog[r])}

EventsOf(rec) == {rec.events[j] : j \in 1..Len(rec.events)}

\* the ADD COLUMN statements run r sent to the database
AddColumnsSent(r) ==
    UNION {{e \in EventsOf(rec) : e.kind = "add_col" /\ e.did # "skip"} :
              rec \in StepRecs(r)}

\* run r went through its seven steps and no statement raised
FullySuccessful(r) ==
    /\ Len(slog[r]) = NSteps
    /\ \A rec \in StepRecs(r) :
          /\ rec.outcome = "commit"
          /\ \A e \in EventsOf(rec) : e.did # "raise"

\* nothing the database started with has been dropped or renamed
NothingDropped ==
    /\ schema0.tables \subseteq schema.tables
    /\ schema0.cols \subseteq schema.cols
    /\ schema0.indexes \subseteq schema.indexes

\* C6 as stated: an ADD COLUMN statement is executed only when the column
\* is absent from the table when it is checked; nothing is dropped or
\* renamed; a run that follows a fully successful run executes no ADD
\* COLUMN statement.
C6_Original ==
    /\ \A r \in 1..MaxRuns : \A e \in AddColumnsSent(r) : ~e.present
    /\ NothingDropped
    /\ \A r \in 2..MaxRuns : FullySuccessful(r - 1) => AddColumnsSent(r) = {}

\* C6 amended: an ADD COLUMN statement is executed only when the column is
\* absent from the table when it is checked, or when the inspection of the
\* table raised (get_cols then reports no column); nothing is dropped or
\* renamed; a run that follows a fully successful run executes an ADD COLUMN
\* statement only for a column whose inspection raised, and adds nothing.
C6_AddsOnlyMissing ==
    /\ \A r \in 1..MaxRuns : \A e \in AddColumnsSent(r) :
          ~e.present \/ ~e.inspected
    /\ NothingDropped
    /\ \A r \in 2..MaxRuns : FullySuccessful(r - 1) =>
          /\ \A e \in AddColumnsSent(r) : ~e.inspected
          /\ \A rec \in StepRecs(r) : rec.added = {}

\* a second run after a fully successful first run that added columns:
\* every add_col of the second run is skipped
C6_Witness ==
    /\ run = 2
    /\ FullySuccessful(1)
    /\ \E e \in AddColumnsSent(1) : e.did = "exec" /\ ~e.present
    /\ Len(slog[2]) = NSteps
    /\ AddColumnsSent(2) = {}
    /\ \E rec \in StepRecs(2) : \E e \in EventsOf(rec) : e.did = "skip"

\* the steps of every run are attempted in order, one after the other,
\* whatever the earlier ones did, and what a step committed stays
StepsIsolated ==
    /\ \A r \in 1..MaxRuns :
          /\ \A j \in 1..Len(slog[r]) : slog[r][j].step = j
          /\ r < run => Len(slog[r]) = NSteps
          /\ r = run => Len(slog[r]) = step - 1
          /\ r > run => slog[r] = <<>>
    /\ \A r \in 1..MaxRuns : \A rec \in StepRecs(r) : rec.added \subseteq schema.cols

\* C7 as stated: if any statement of a step raises, the session is rolled
\* back, nothing propagates, every later step is still attempted and the
\* columns of earlier steps remain; a step's additions are committed only
\* if all of its statements succeeded.
C7_Original ==
    /\ StepsIsolated
    /\ \A r \in 1..MaxRuns : \A rec \in StepRecs(r) :
          /\ (\E e \in EventsOf(rec) : e.did = "raise") => rec.outcome = "rollback"
          /\ rec.added # {} => \A e \in EventsOf(rec) : e.did # "raise"

\* C7 amended: if an add_col or create_index statement of a step raises,
\* the session is rolled back and the step adds nothing; nothing propagates,
\* every later step is still attempted and the columns of earlier steps
\* remain; a step's additions are committed only if all of its add_col and
\* create_index statements succeeded.  The PostgreSQL-only DROP NOT NULL
\* statement of step 7 is the exception: when it raises, the inner
\* try/except swallows the exception, no rollback is issued and the step
\* goes on to commit.
C7_StepsIsolated ==
    /\ StepsIsolated
    /\ \A r \in 1..MaxRuns : \A rec \in StepRecs(r) :
          LET raisedIn(kinds) ==
                \E e \in EventsOf(rec) : e.did = "raise" /\ e.kind \in kinds
          IN  /\ raisedIn({"add_col", "create_index"}) =>
                    /\ rec.outcome = "rollback"
                    /\ rec.added = {}
                    /\ rec.events[Len(rec.events)].did = "raise"
              /\ ~raisedIn({"add_col", "create_index"}) => rec.outcome = "commit"
              /\ rec.added # {} => ~raisedIn({"add_col", "create_index"})
              /\ raisedIn({"drop_not_null"}) =>
                    /\ rec.step = 7
                    /\ dialect = "postgresql"
                    /\ rec.outcome = "commit"

\* a run in which a statement of step 2 raised after an earlier statement
\* of the step had been executed: step 2 added nothing, step 1 before it
\* and step 4 after it committed their columns
C7_Witness ==
    /\ Len(slog[1]) = NSteps
    /\ slog[1][2].outcome = "rollback"
    /\ \E e \in EventsOf(slog[1][2]) : e.did = "exec"
    /\ slog[1][2].added = {}
    /\ slog[1][1].added # {}
    /\ slog[1][4].added # {}
    /\ slog[1][4].added \subseteq schema.cols

=============================================================================
